---- MODULE Spec2Model ----
(***************************************************************************)
(* Recruitify backend: the HTTP handlers of backend/main.py (FastAPI +     *)
(* SQLModel) and backend/app_flask_old.py (Flask + SQLAlchemy) over the    *)
(* tables job, candidate, application and user of a SQLite database.       *)
(*                                                                         *)
(* A row keeps the columns the handlers read or compare: id, created_at    *)
(* and title / name / email / username / job_id / candidate_id.  The free  *)
(* text columns no handler looks at (description, location, resume,        *)
(* cover_letter, role) are left out.  The field born is a history field:   *)
(* the clock reading at the moment the row was inserted.                   *)
(*                                                                         *)
(* A handler is modelled from the parsed request to the response: routing, *)
(* CORS and the static files are outside the model.  The clock is          *)
(* datetime.utcnow, taken to give a later reading at every call.           *)
(***************************************************************************)
EXTENDS Integers, Sequences, FiniteSets

VARIABLES variant, jobs, candidates, applications, users, clock, commits, last, threads

vars == <<variant, jobs, candidates, applications, users, clock, commits, last, threads>>

tables == <<jobs, candidates, applications, users>>

----------------------------------------------------------------------------
(* Bounds of the model.                                                    *)

\* what a run may commit after startup: in Spec the requests that change a
\* table, in SpecConc the session.commit() calls that do
MaxCommits == 2
\* request threads of the concurrent specification (two suffice for a race)
Threads == {"w1", "w2"}

----------------------------------------------------------------------------
(* Values.                                                                 *)

\* Python's None for a string field and for an integer field
None == "<None>"
NoInt == -1

Variants == {"flask", "fastapi"}

\* seed_jobs_if_empty: the three sample jobs, inserted in this order
SeedTitles == <<"Junior Backend Engineer", "Frontend Developer", "Data Analyst Intern">>

SeedJobs ==
    {[id |-> i, title |-> SeedTitles[i], created_at |-> i, born |-> i] : i \in 1..Len(SeedTitles)}

\* the largest rowid a run can reach
MaxRowId == Len(SeedTitles) + MaxCommits

\* what a client may send
Titles == {None, "", "Backend Engineer"}
Names == {None, "", "Ada", "Grace"}
Emails == {None, "ada@x.com", "bob@x.com"}
Usernames == {None, "admin"}
UserEmails == {None, "root@x.com", "hr@x.com"}
\* id and created_at are fields of the FastAPI request bodies (the body is the
\* table model itself): absent, or a value of the client's choosing
PayloadIds == {NoInt, 0}
PayloadTimes == {NoInt, 0}
PathIds == 0..MaxRowId
JobIdArgs == {NoInt} \cup PathIds

\* a body sets at most one of the two
Extras == {x \in [id : PayloadIds, created_at : PayloadTimes] : x.id = NoInt \/ x.created_at = NoInt}

JobBodies ==
    {[title |-> t, id |-> x.id, created_at |-> x.created_at] : t \in Titles, x \in Extras}
CandidateBodies ==
    {[name |-> n, email |-> e, id |-> x.id, created_at |-> x.created_at] :
        n \in Names, e \in Emails, x \in Extras}
UserBodies ==
    {[username |-> u, email |-> e, id |-> x.id, created_at |-> x.created_at] :
        u \in Usernames, e \in UserEmails, x \in Extras}
ApplyPayloads == [name : Names, email : Emails, job_id : JobIdArgs]

\* Python truthiness of a str / int payload value: `not x`
Falsy(x) == x = None \/ x = ""
FalsyInt(n) == n = NoInt \/ n = 0

----------------------------------------------------------------------------
(* The relational store.                                                   *)

Ids(rows) == {r.id : r \in rows}

Max(S) == CHOOSE m \in S : \A x \in S : x <= m

\* SQLite INTEGER PRIMARY KEY without AUTOINCREMENT: one more than the largest
\* rowid in the table, 1 for an empty table
NextId(rows) == IF rows = {} THEN 1 ELSE Max(Ids(rows)) + 1

\* session.get(Model, id) / Model.query.get(id): the row as a set of 0 or 1 rows
GetById(rows, id) == {r \in rows : r.id = id}

\* a lookup that never matches
FindByEmail_NoMatch(rows, email) == {}

\* select(Model).where(Model.email == email) / filter_by(email=email)
FindByEmail(rows, email) == {r \in rows : r.email = email}

\* a DELETE without its WHERE clause
DeleteRow_All(rows, row) == {}

\* session.delete(row); session.commit()
DeleteRow(rows, row) == rows \ {row}

\* datetime.utcnow: every reading is later than the one before
UtcNow(c) == c + 1

\* the id the store gives a new row: the one of the request body, else rowid
AssignId(rows, id) == IF id = NoInt THEN NextId(rows) ELSE id

\* default_factory=datetime.utcnow: the body's created_at, else the clock
AssignTime(t, now) == IF t = NoInt THEN now ELSE t

\* a unique index on email in both schemas
UniqueEmail_Both == TRUE

\* Flask declares Candidate.email unique=True; SQLModel's Candidate does not
UniqueEmail == variant = "flask"

RECURSIVE OrderByCreatedAtAsc(_)
\* ORDER BY created_at ASC
OrderByCreatedAtAsc(rows) ==
    IF rows = {} THEN {<<>>}
    ELSE LET low == {r \in rows : \A q \in rows : r.created_at <= q.created_at}
         IN UNION {{<<r>> \o s : s \in OrderByCreatedAtAsc(rows \ {r})} : r \in low}

RECURSIVE OrderByCreatedAtDesc(_)
\* ORDER BY created_at DESC: every order of the rows with created_at
\* non-increasing (SQL leaves the order of equal keys open)
OrderByCreatedAtDesc(rows) ==
    IF rows = {} THEN {<<>>}
    ELSE LET top == {r \in rows : \A q \in rows : q.created_at <= r.created_at}
         IN UNION {{<<r>> \o s : s \in OrderByCreatedAtDesc(rows \ {r})} : r \in top}

----------------------------------------------------------------------------
(* Outcomes.  A handler's outcome is its HTTP status, the tables and clock *)
(* it leaves behind and the rows it returns.  last is the last request     *)
(* that committed a change, with its response (status 0 while the request  *)
(* is still running); a request that changes nothing leaves the whole      *)
(* state as it was.                                                        *)

Outcome(status, body) ==
    [status |-> status, body |-> body, jobs |-> jobs, candidates |-> candidates,
     applications |-> applications, users |-> users, clock |-> clock]

Committed(r) == <<r.jobs, r.candidates, r.applications, r.users>> # tables

Serve(op, args, r) ==
    /\ Committed(r) => commits < MaxCommits
    /\ commits' = IF Committed(r) THEN commits + 1 ELSE commits
    /\ jobs' = r.jobs
    /\ candidates' = r.candidates
    /\ applications' = r.applications
    /\ users' = r.users
    /\ clock' = r.clock
    /\ last' = IF Committed(r)
               THEN [op |-> op, args |-> args, status |-> r.status, body |-> r.body]
               ELSE last
    /\ UNCHANGED <<variant, threads>>

Idle == [pc |-> "idle"]

Init ==
    /\ variant \in Variants
    /\ jobs = SeedJobs
    /\ candidates = {}
    /\ applications = {}
    /\ users = {}
    /\ clock = Len(SeedTitles)
    /\ commits = 0
    /\ last = [op |-> "startup", args |-> <<>>, status |-> 0, body |-> <<>>]
    /\ threads = [t \in Threads |-> Idle]

----------------------------------------------------------------------------
(* JOBS                                                                    *)

\* GET /api/jobs: select(Job).order_by(Job.created_at.desc())
list_jobs_outcomes == {Outcome(200, s) : s \in OrderByCreatedAtDesc(jobs)}

list_jobs ==
    /\ variant = "fastapi"
    /\ \E r \in list_jobs_outcomes : Serve("list_jobs", <<>>, r)

get_jobs ==
    /\ variant = "flask"
    /\ \E r \in list_jobs_outcomes : Serve("get_jobs", <<>>, r)

\* POST /api/jobs (FastAPI): the body is a Job; FastAPI answers 422 when the
\* required str field title is missing, the store refuses a taken primary key
create_job_outcome(body) ==
    LET now == UtcNow(clock)
        job == [id |-> AssignId(jobs, body.id), title |-> body.title,
                created_at |-> AssignTime(body.created_at, now), born |-> now]
    IN  IF body.title = None THEN Outcome(422, <<>>)
        ELSE IF job.id \in Ids(jobs) THEN Outcome(500, <<>>)
        ELSE [Outcome(201, <<job>>) EXCEPT !.jobs = jobs \cup {job}, !.clock = now]

create_job ==
    /\ variant = "fastapi"
    /\ \E body \in JobBodies : Serve("create_job", body, create_job_outcome(body))

\* POST /api/jobs (Flask): reads title, description and location only
create_job_flask_outcome(data) ==
    LET now == UtcNow(clock)
        job == [id |-> NextId(jobs), title |-> data.title, created_at |-> now, born |-> now]
    IN  IF Falsy(data.title) THEN Outcome(400, <<>>)
        ELSE [Outcome(201, <<job>>) EXCEPT !.jobs = jobs \cup {job}, !.clock = now]

create_job_flask ==
    /\ variant = "flask"
    /\ \E data \in JobBodies : Serve("create_job", data, create_job_flask_outcome(data))

\* GET /api/jobs/{job_id}
get_job_outcome(job_id) ==
    LET job == GetById(jobs, job_id)
    IN  IF job = {} THEN Outcome(404, <<>>)
        ELSE Outcome(200, <<CHOOSE j \in job : TRUE>>)

get_job ==
    /\ variant = "fastapi"
    /\ \E job_id \in PathIds : Serve("get_job", job_id, get_job_outcome(job_id))

\* DELETE /api/jobs/{job_id}
delete_job_outcome(job_id) ==
    LET job == GetById(jobs, job_id)
    IN  IF job = {} THEN Outcome(404, <<>>)
        ELSE [Outcome(200, <<>>) EXCEPT !.jobs = DeleteRow(jobs, CHOOSE j \in job : TRUE)]

delete_job ==
    /\ variant = "fastapi"
    /\ \E job_id \in PathIds : Serve("delete_job", job_id, delete_job_outcome(job_id))

----------------------------------------------------------------------------
(* CANDIDATES                                                              *)

list_candidates_outcomes == {Outcome(200, s) : s \in OrderByCreatedAtDesc(candidates)}

list_candidates ==
    /\ variant = "fastapi"
    /\ \E r \in list_candidates_outcomes : Serve("list_candidates", <<>>, r)

get_candidates ==
    /\ variant = "flask"
    /\ \E r \in list_candidates_outcomes : Serve("get_candidates", <<>>, r)

\* POST /api/candidates (FastAPI): the body is a Candidate (name and email
\* required str fields); lookup by email, then insert
create_candidate_outcome(body) ==
    LET now == UtcNow(clock)
        cand == [id |-> AssignId(candidates, body.id), name |-> body.name, email |-> body.email,
                 created_at |-> AssignTime(body.created_at, now), born |-> now]
    IN  IF body.name = None \/ body.email = None THEN Outcome(422, <<>>)
        ELSE IF FindByEmail(candidates, body.email) # {} THEN Outcome(409, <<>>)
        ELSE IF cand.id \in Ids(candidates) THEN Outcome(500, <<>>)
        ELSE [Outcome(201, <<cand>>) EXCEPT !.candidates = candidates \cup {cand}, !.clock = now]

create_candidate ==
    /\ variant = "fastapi"
    /\ \E body \in CandidateBodies :
        Serve("create_candidate", body, create_candidate_outcome(body))

\* POST /api/candidates (Flask)
create_candidate_flask_outcome(data) ==
    LET now == UtcNow(clock)
        cand == [id |-> NextId(candidates), name |-> data.name, email |-> data.email,
                 created_at |-> now, born |-> now]
    IN  IF Falsy(data.name) \/ Falsy(data.email) THEN Outcome(400, <<>>)
        ELSE IF FindByEmail(candidates, data.email) # {} THEN Outcome(409, <<>>)
        ELSE [Outcome(201, <<cand>>) EXCEPT !.candidates = candidates \cup {cand}, !.clock = now]

create_candidate_flask ==
    /\ variant = "flask"
    /\ \E data \in CandidateBodies :
        Serve("create_candidate", data, create_candidate_flask_outcome(data))

----------------------------------------------------------------------------
(* APPLICATIONS                                                            *)

\* the nested summaries of an application; a missing row gives None, here the
\* empty set
ApplicationView(a, js, cs) ==
    [id |-> a.id, created_at |-> a.created_at,
     job |-> {[id |-> j.id, title |-> j.title] : j \in GetById(js, a.job_id)},
     candidate |-> {[id |-> c.id, name |-> c.name, email |-> c.email] :
                        c \in GetById(cs, a.candidate_id)}]

\* the candidate apply creates when the lookup by email finds none
NewCandidate(cs, name, email, now) ==
    [id |-> NextId(cs), name |-> name, email |-> email, created_at |-> now, born |-> now]

\* the two foreign keys swapped
NewApplication_Swapped(as, job, cand, now) ==
    [id |-> NextId(as), job_id |-> cand.id, candidate_id |-> job.id,
     created_at |-> now, born |-> now]

\* the application apply inserts for a job and a candidate
NewApplication(as, job, cand, now) ==
    [id |-> NextId(as), job_id |-> job.id, candidate_id |-> cand.id,
     created_at |-> now, born |-> now]

\* Application(...); session.add; session.commit: the outcome of the second
\* half of apply, on candidates cs and the clock reading c
InsertApplication(job, cand, cs, c) ==
    LET now == UtcNow(c)
        app == NewApplication(applications, job, cand, now)
    IN  [Outcome(201, <<ApplicationView(app, jobs, cs)>>) EXCEPT
            !.candidates = cs, !.applications = applications \cup {app}, !.clock = now]

\* apply with the candidate created before the job is looked up
apply_outcomes_CandidateFirst(payload) ==
    IF Falsy(payload.name) \/ Falsy(payload.email) \/ FalsyInt(payload.job_id)
    THEN {Outcome(400, <<>>)}
    ELSE LET job == GetById(jobs, payload.job_id)
             found == FindByEmail(candidates, payload.email)
             cand == NewCandidate(candidates, payload.name, payload.email, UtcNow(clock))
             cs == IF found = {} THEN candidates \cup {cand} ELSE candidates
             c == IF found = {} THEN UtcNow(clock) ELSE clock
         IN  IF job = {}
             THEN {[Outcome(404, <<>>) EXCEPT !.candidates = cs, !.clock = c]}
             ELSE {InsertApplication(j, x, cs, c) :
                      j \in job, x \in IF found = {} THEN {cand} ELSE found}

\* POST /api/apply, both variants: 400, 404, then the candidate by email
\* (.first(): any one of the rows found), created when there is none, then
\* the application
apply_outcomes(payload) ==
    IF Falsy(payload.name) \/ Falsy(payload.email) \/ FalsyInt(payload.job_id)
    THEN {Outcome(400, <<>>)}
    ELSE LET job == GetById(jobs, payload.job_id)
             found == FindByEmail(candidates, payload.email)
             cand == NewCandidate(candidates, payload.name, payload.email, UtcNow(clock))
         IN  IF job = {} THEN {Outcome(404, <<>>)}
             ELSE IF found = {}
             THEN {InsertApplication(j, cand, candidates \cup {cand}, UtcNow(clock)) : j \in job}
             ELSE {InsertApplication(j, c, candidates, clock) : j \in job, c \in found}

apply ==
    /\ variant = "fastapi"
    /\ \E payload \in ApplyPayloads :
        \E r \in apply_outcomes(payload) : Serve("apply", payload, r)

apply_job ==
    /\ variant = "flask"
    /\ \E data \in ApplyPayloads :
        \E r \in apply_outcomes(data) : Serve("apply", data, r)

\* GET /api/applications
list_applications_outcomes ==
    {Outcome(200, [i \in 1..Len(s) |-> ApplicationView(s[i], jobs, candidates)]) :
        s \in OrderByCreatedAtDesc(applications)}

list_applications ==
    /\ variant = "fastapi"
    /\ \E r \in list_applications_outcomes : Serve("list_applications", <<>>, r)

get_applications ==
    /\ variant = "flask"
    /\ \E r \in list_applications_outcomes : Serve("get_applications", <<>>, r)

----------------------------------------------------------------------------
(* USERS (FastAPI only)                                                    *)

list_users_outcomes == {Outcome(200, s) : s \in OrderByCreatedAtDesc(users)}

list_users ==
    /\ variant = "fastapi"
    /\ \E r \in list_users_outcomes : Serve("list_users", <<>>, r)

\* POST /api/users: the body is a User (username and email required)
create_user_outcome(body) ==
    LET now == UtcNow(clock)
        user == [id |-> AssignId(users, body.id), username |-> body.username,
                 email |-> body.email,
                 created_at |-> AssignTime(body.created_at, now), born |-> now]
    IN  IF body.username = None \/ body.email = None THEN Outcome(422, <<>>)
        ELSE IF FindByEmail(users, body.email) # {} THEN Outcome(409, <<>>)
        ELSE IF user.id \in Ids(users) THEN Outcome(500, <<>>)
        ELSE [Outcome(201, <<user>>) EXCEPT !.users = users \cup {user}, !.clock = now]

create_user ==
    /\ variant = "fastapi"
    /\ \E body \in UserBodies : Serve("create_user", body, create_user_outcome(body))

\* GET /api/users/{user_id}
get_user_outcome(user_id) ==
    LET user == GetById(users, user_id)
    IN  IF user = {} THEN Outcome(404, <<>>)
        ELSE Outcome(200, <<CHOOSE u \in user : TRUE>>)

get_user ==
    /\ variant = "fastapi"
    /\ \E user_id \in PathIds : Serve("get_user", user_id, get_user_outcome(user_id))

\* DELETE /api/users/{user_id}
delete_user_outcome(user_id) ==
    LET user == GetById(users, user_id)
    IN  IF user = {} THEN Outcome(404, <<>>)
        ELSE [Outcome(200, <<>>) EXCEPT !.users = DeleteRow(users, CHOOSE u \in user : TRUE)]

delete_user ==
    /\ variant = "fastapi"
    /\ \E user_id \in PathIds : Serve("delete_user", user_id, delete_user_outcome(user_id))

----------------------------------------------------------------------------
(* Requests served one at a time, each run to completion.                  *)

Next ==
    \/ list_jobs
    \/ get_jobs
    \/ create_job
    \/ create_job_flask
    \/ get_job
    \/ delete_job
    \/ list_candidates
    \/ get_candidates
    \/ create_candidate
    \/ create_candidate_flask
    \/ apply
    \/ apply_job
    \/ list_applications
    \/ get_applications
    \/ list_users
    \/ create_user
    \/ get_user
    \/ delete_user

Spec == Init /\ [][Next]_vars

----------------------------------------------------------------------------
(* Concurrent requests.  Both servers run handlers on several threads, so  *)
(* two requests interleave between their accesses to the database.  Each   *)
(* thread serves one request at a time, a step per access: the lookups and *)
(* each session.commit().  The requests raced here are the two that look a *)
(* candidate up by email and then insert: create_candidate and apply, with *)
(* bodies that pass validation.                                            *)

RaceBodies ==
    {b \in CandidateBodies : b.name = "Ada" /\ b.email # None /\ b.id = NoInt /\ b.created_at = NoInt}

RacePayloads ==
    {p \in ApplyPayloads : p.name = "Ada" /\ p.email # None /\ p.job_id \in {1, MaxRowId}}

Goto(t, local) == threads' = [threads EXCEPT ![t] = local]

Commit(t, op, args, status, body) ==
    /\ commits' = commits + 1
    /\ last' = [op |-> op, args |-> args, status |-> status, body |-> body]
    /\ Goto(t, Idle)

\* the store's answer to an INSERT of a candidate row: the unique index on
\* email, where one is declared, refuses a second row with the email
InsertRefused(cand) == UniqueEmail /\ FindByEmail(candidates, cand.email) # {}

\* create_candidate up to the lookup: 409 when a row has the email
create_candidate_lookup(t) ==
    /\ threads[t] = Idle
    /\ \E body \in RaceBodies :
        IF FindByEmail(candidates, body.email) # {}
        THEN UNCHANGED threads
        ELSE Goto(t, [pc |-> "create_candidate_commit", body |-> body])
    /\ UNCHANGED <<variant, tables, clock, commits, last>>

\* create_candidate from session.add to the response
create_candidate_commit(t) ==
    /\ threads[t].pc = "create_candidate_commit"
    /\ commits < MaxCommits
    /\ LET body == threads[t].body
           now == UtcNow(clock)
           cand == [id |-> NextId(candidates), name |-> body.name, email |-> body.email,
                    created_at |-> now, born |-> now]
       IN  IF InsertRefused(cand)
           THEN /\ Goto(t, Idle)
                /\ UNCHANGED <<candidates, clock, commits, last>>
           ELSE /\ candidates' = candidates \cup {cand}
                /\ clock' = now
                /\ Commit(t, "create_candidate", body, 201, <<cand>>)
    /\ UNCHANGED <<variant, jobs, applications, users>>

\* apply up to the job lookup: 404 when no job has the id
apply_get_job(t) ==
    /\ threads[t] = Idle
    /\ \E payload \in RacePayloads :
        LET job == GetById(jobs, payload.job_id)
        IN  IF job = {}
            THEN UNCHANGED threads
            ELSE \E j \in job : Goto(t, [pc |-> "apply_lookup", payload |-> payload, job |-> j])
    /\ UNCHANGED <<variant, tables, clock, commits, last>>

\* apply: the candidate by email, .first()
apply_lookup(t) ==
    /\ threads[t].pc = "apply_lookup"
    /\ LET found == FindByEmail(candidates, threads[t].payload.email)
       IN  IF found = {}
           THEN Goto(t, [threads[t] EXCEPT !.pc = "apply_insert_candidate"])
           ELSE \E c \in found :
                Goto(t, [pc |-> "apply_insert_application", payload |-> threads[t].payload,
                         job |-> threads[t].job, candidate |-> c, created |-> FALSE])
    /\ UNCHANGED <<variant, tables, clock, commits, last>>

\* apply: Candidate(...); session.add; session.commit (the first commit)
apply_insert_candidate(t) ==
    /\ threads[t].pc = "apply_insert_candidate"
    /\ commits < MaxCommits
    /\ LET payload == threads[t].payload
           now == UtcNow(clock)
           cand == NewCandidate(candidates, payload.name, payload.email, now)
       IN  IF InsertRefused(cand)
           THEN /\ Goto(t, Idle)
                /\ UNCHANGED <<candidates, clock, commits, last>>
           ELSE /\ candidates' = candidates \cup {cand}
                /\ clock' = now
                /\ commits' = commits + 1
                /\ last' = [op |-> "apply", args |-> payload, status |-> 0, body |-> <<cand>>]
                /\ Goto(t, [pc |-> "apply_insert_application", payload |-> payload,
                            job |-> threads[t].job, candidate |-> cand, created |-> TRUE])
    /\ UNCHANGED <<variant, jobs, applications, users>>

\* apply: Application(...); session.add; session.commit (the second commit)
apply_insert_application(t) ==
    /\ threads[t].pc = "apply_insert_application"
    /\ commits < MaxCommits
    /\ LET now == UtcNow(clock)
           app == NewApplication(applications, threads[t].job, threads[t].candidate, now)
       IN  /\ applications' = applications \cup {app}
           /\ clock' = now
           /\ Commit(t, "apply", threads[t].payload, 201,
                     <<ApplicationView(app, jobs, candidates)>>)
    /\ UNCHANGED <<variant, jobs, candidates, users>>

NextConc ==
    \/ \E t \in Threads : create_candidate_lookup(t)
    \/ \E t \in Threads : create_candidate_commit(t)
    \/ \E t \in Threads : apply_get_job(t)
    \/ \E t \in Threads : apply_lookup(t)
    \/ \E t \in Threads : apply_insert_candidate(t)
    \/ \E t \in Threads : apply_insert_application(t)
    \/ list_candidates
    \/ get_candidates
    \/ list_applications
    \/ get_applications

SpecConc == Init /\ [][NextConc]_vars

----------------------------------------------------------------------------
(* Properties.                                                             *)

FastAPI == variant = "fastapi"

Range(s) == {s[i] : i \in 1..Len(s)}

\* the outcome of POST /api/jobs and of POST /api/candidates on the server running
CreateJobOutcome(body) ==
    IF FastAPI THEN create_job_outcome(body) ELSE create_job_flask_outcome(body)

CreateCandidateOutcome(body) ==
    IF FastAPI THEN create_candidate_outcome(body) ELSE create_candidate_flask_outcome(body)

SameTables(r) == <<r.jobs, r.candidates, r.applications, r.users>> = tables

EmailTaken(rows, email) == \E r \in rows : r.email = email

UniqueEmails(rows) == \A r, q \in rows : r.email = q.email => r = q

\* C1: createJob with a missing or empty title always returns 400 and leaves
\* the Job rows unchanged, on the Flask and on the FastAPI server.
C1_TitleRequired ==
    \A body \in JobBodies :
        Falsy(body.title) =>
            /\ CreateJobOutcome(body).status = 400
            /\ CreateJobOutcome(body).jobs = jobs

\* C2 as stated: createCandidate with the email of an existing Candidate row
\* always returns 409 and leaves the Candidate table unchanged, whatever the
\* name supplied.
C2_DuplicateIs409 ==
    \A body \in CandidateBodies :
        EmailTaken(candidates, body.email) =>
            /\ CreateCandidateOutcome(body).status = 409
            /\ CreateCandidateOutcome(body).candidates = candidates

\* C2 amended: with a non-empty name and the email of an existing Candidate
\* row createCandidate returns 409; with a missing or empty name the answer is
\* 400 (Flask), 422 (FastAPI, name missing) or 409 (FastAPI, name empty); in
\* every case no table changes.
C2_DuplicateIs409_NameGiven ==
    \A body \in CandidateBodies :
        EmailTaken(candidates, body.email) =>
            /\ SameTables(CreateCandidateOutcome(body))
            /\ ~Falsy(body.name) => CreateCandidateOutcome(body).status = 409
            /\ Falsy(body.name) =>
                CreateCandidateOutcome(body).status =
                    IF ~FastAPI THEN 400 ELSE IF body.name = None THEN 422 ELSE 409

\* a duplicate create is refused while a candidate created earlier is stored
C2_Witness ==
    /\ last.op = "create_candidate"
    /\ \E body \in CandidateBodies :
        /\ ~Falsy(body.name)
        /\ body.email = last.args.email
        /\ EmailTaken(candidates, body.email)
        /\ CreateCandidateOutcome(body).status = 409

\* C3 as stated: applyToJob with name and email present and a job_id that
\* matches no Job returns 404 and leaves candidates and applications unchanged.
C3_UnknownJobIs404 ==
    \A payload \in ApplyPayloads :
        (/\ ~Falsy(payload.name) /\ ~Falsy(payload.email)
         /\ payload.job_id # NoInt /\ payload.job_id \notin Ids(jobs)) =>
            /\ apply_outcomes(payload) # {}
            /\ \A r \in apply_outcomes(payload) :
                r.status = 404 /\ r.candidates = candidates /\ r.applications = applications

\* C3 amended: the same for a non-zero job_id; job_id 0 counts as missing
\* and is answered 400; in both cases no table changes, also for a new email.
C3_UnknownJobIs404_NonZero ==
    \A payload \in ApplyPayloads :
        (/\ ~Falsy(payload.name) /\ ~Falsy(payload.email)
         /\ payload.job_id # NoInt /\ payload.job_id \notin Ids(jobs)) =>
            /\ apply_outcomes(payload) # {}
            /\ \A r \in apply_outcomes(payload) :
                /\ r.status = IF payload.job_id = 0 THEN 400 ELSE 404
                /\ SameTables(r)

\* apply with a new email names a job that was deleted: 404
C3_Witness ==
    /\ last.op = "delete_job"
    /\ \E payload \in ApplyPayloads :
        /\ ~Falsy(payload.name) /\ ~Falsy(payload.email)
        /\ payload.job_id = last.args
        /\ payload.job_id \notin Ids(jobs)
        /\ ~EmailTaken(candidates, payload.email)
        /\ \E r \in apply_outcomes(payload) : r.status = 404

\* the step is a successful applyToJob
Applied == last' # last /\ last'.op = "apply" /\ last'.status = 201

\* C4: a successful applyToJob with an email no Candidate has adds exactly one
\* Candidate row and one Application row; a later successful applyToJob with
\* that email adds no Candidate row and one Application row, whose candidate_id
\* is the id of the Candidate of the first call (Candidate rows are never
\* removed or changed, and one row holds the email).
C4_ApplyReusesCandidate ==
    [][/\ candidates \subseteq candidates'
       /\ Applied =>
            LET known == {c \in candidates : c.email = last'.args.email}
                added == applications' \ applications
            IN  /\ applications \subseteq applications'
                /\ Cardinality(added) = 1
                /\ IF known = {}
                   THEN /\ Cardinality(candidates' \ candidates) = 1
                        /\ \A c \in candidates' \ candidates, a \in added :
                            c.email = last'.args.email /\ a.candidate_id = c.id
                   ELSE /\ candidates' = candidates
                        /\ Cardinality(known) = 1
                        /\ \A c \in known, a \in added : a.candidate_id = c.id]_vars

\* two applications served: the first created the candidate, the second, for
\* another job and under another name, reused it
C4_Witness ==
    /\ last.op = "apply"
    /\ commits = 2
    /\ Cardinality(applications) = 2
    /\ Cardinality(candidates) = 1
    /\ \A a \in applications : a.candidate_id \in Ids(candidates)
    /\ \A c \in candidates : c.name # last.args.name /\ c.email = last.args.email
    /\ \E a, b \in applications : a.job_id # b.job_id

\* the step creates a row of the table
Created(op) == last' # last /\ last'.op = op /\ last'.status = 201

\* what deleteJob, getJob and listJobs answer for id in the current state
JobAnswers(id) ==
    IF id \notin Ids(jobs)
    THEN /\ delete_job_outcome(id).status = 404 /\ SameTables(delete_job_outcome(id))
         /\ get_job_outcome(id).status = 404
         /\ \A r \in list_jobs_outcomes : \A j \in Range(r.body) : j.id # id
    ELSE /\ delete_job_outcome(id).status = 200
         /\ delete_job_outcome(id).jobs = {j \in jobs : j.id # id}
         /\ Cardinality(delete_job_outcome(id).jobs) = Cardinality(jobs) - 1
         /\ delete_job_outcome(id).candidates = candidates
         /\ delete_job_outcome(id).applications = applications
         /\ delete_job_outcome(id).users = users

\* what deleteUser, getUser and listUsers answer for id in the current state
UserAnswers(id) ==
    IF id \notin Ids(users)
    THEN /\ delete_user_outcome(id).status = 404 /\ SameTables(delete_user_outcome(id))
         /\ get_user_outcome(id).status = 404
         /\ \A r \in list_users_outcomes : \A u \in Range(r.body) : u.id # id
    ELSE /\ delete_user_outcome(id).status = 200
         /\ delete_user_outcome(id).users = {u \in users : u.id # id}
         /\ Cardinality(delete_user_outcome(id).users) = Cardinality(users) - 1
         /\ delete_user_outcome(id).jobs = jobs
         /\ delete_user_outcome(id).candidates = candidates
         /\ delete_user_outcome(id).applications = applications

\* C5: deleteJob / deleteUser with an id that matches no row returns 404 and
\* changes no table; with an id that matches a row it returns 200 and removes
\* exactly that row; an id that matches no row gets a row again only by a
\* create, and until then getJob / getUser answers 404 and no list holds it.
\* (The answers are required in the state before and the state after every
\* step that changes a table, which are all the states there are.)
C5_DeleteRemovesRow ==
    [][tables' # tables =>
        \A id \in PathIds :
            /\ JobAnswers(id) /\ JobAnswers(id)'
            /\ UserAnswers(id) /\ UserAnswers(id)'
            /\ (id \notin Ids(jobs) /\ id \in Ids(jobs')) => Created("create_job")
            /\ (id \notin Ids(users) /\ id \in Ids(users')) => Created("create_user")]_vars

\* a job was deleted, two remain, and its id now answers 404
C5_Witness ==
    /\ last.op = "delete_job"
    /\ last.status = 200
    /\ last.args \notin Ids(jobs)
    /\ Cardinality(jobs) >= 2
    /\ get_job_outcome(last.args).status = 404

\* a listing holds each stored row once, created_at non-increasing
Listed(body, rows) ==
    /\ Len(body) = Cardinality(rows)
    /\ {x.id : x \in Range(body)} = Ids(rows)
    /\ \A i, j \in 1..Len(body) : i < j => body[i].created_at >= body[j].created_at

RowById(rows, id) == CHOOSE r \in rows : r.id = id

\* a listing never shows a row after a row inserted before it
NewestFirst(body, rows) ==
    \A i, j \in 1..Len(body) :
        i < j => RowById(rows, body[i].id).born > RowById(rows, body[j].id).born

\* the same, for the rows whose created_at is the server's clock reading
NewestFirstByClock(body, rows) ==
    \A i, j \in 1..Len(body) :
        LET x == RowById(rows, body[i].id)
            y == RowById(rows, body[j].id)
        IN  (i < j /\ x.created_at = x.born /\ y.created_at = y.born) => x.born > y.born

C7_EmailsUnique == UniqueEmails(candidates) /\ UniqueEmails(users)

\* two candidates stored, the second by applyToJob
C7_Witness ==
    /\ last.op = "apply"
    /\ Cardinality(candidates) = 2

\* the email of the candidate row a thread is about to insert
PendingEmail(t) ==
    IF threads[t].pc = "create_candidate_commit" THEN threads[t].body.email
    ELSE threads[t].payload.email

\* C8: on the FastAPI server a request that passed the lookup by email
\* inserts its Candidate row also when another request has committed a row
\* with that email in between; the table then holds two rows with one email.
C8_BothInsertsCommit ==
    [][\A t \in Threads :
        (/\ FastAPI
         /\ threads[t].pc \in {"create_candidate_commit", "apply_insert_candidate"}
         /\ threads'[t] # threads[t]
         /\ EmailTaken(candidates, PendingEmail(t))) =>
            /\ Cardinality(candidates') = Cardinality(candidates) + 1
            /\ Cardinality({c \in candidates' : c.email = PendingEmail(t)}) >= 2]_vars

\* two Candidate rows with one email on the FastAPI server
C8_Witness ==
    /\ FastAPI
    /\ ~UniqueEmails(candidates)

\* C9: a Candidate row created by an applyToJob call is never in the table
\* without the Application row of that call.
C9_ApplyAtomic ==
    \A t \in Threads :
        (/\ threads[t].pc = "apply_insert_application"
         /\ threads[t].created
         /\ threads[t].candidate \in candidates) =>
            \E a \in applications :
                a.candidate_id = threads[t].candidate.id /\ a.born > threads[t].candidate.born

\* C10 as stated: every Application row's job_id is the id of a stored Job and
\* its candidate_id the id of a stored Candidate; listApplications never
\* returns a null job or candidate.
C10_ReferencesResolve ==
    /\ \A a \in applications : a.job_id \in Ids(jobs) /\ a.candidate_id \in Ids(candidates)
    /\ \A r \in list_applications_outcomes :
        \A v \in Range(r.body) : v.job # {} /\ v.candidate # {}

\* every candidate_id resolves, and a listed job is null exactly when the
\* job_id resolves to no Job
CandidatesResolve ==
    /\ \A a \in applications : a.candidate_id \in Ids(candidates)
    /\ \A r \in list_applications_outcomes : \A v \in Range(r.body) :
        /\ v.candidate # {}
        /\ (v.job = {}) = (RowById(applications, v.id).job_id \notin Ids(jobs))

\* C10 amended: every Application row's candidate_id is the id of a stored
\* Candidate, and its job_id was the id of a stored Job when the row was
\* inserted; a job_id loses its Job only by deleteJob, which neither cascades
\* nor is refused, and listApplications then returns null for the job, and
\* never for the candidate.
\* (The state part is required before and after every step that changes a
\* table, which are all the states there are.)
C10_ReferencesResolveUntilDelete ==
    [][tables' # tables =>
        /\ CandidatesResolve /\ CandidatesResolve'
        /\ \A a \in applications' \ applications : a.job_id \in Ids(jobs')
        /\ \A a \in applications :
            (a.job_id \in Ids(jobs) /\ a.job_id \notin Ids(jobs')) =>
                (last' # last /\ last'.op = "delete_job")]_vars

\* an application whose job has been deleted is listed with a null job
C10_Witness ==
    /\ last.op = "delete_job"
    /\ \E a \in applications : a.job_id \notin Ids(jobs)
    /\ \E r \in list_applications_outcomes : \E v \in Range(r.body) : v.job = {}

====
